---- MODULE Spec2Model ----
(***************************************************************************)
(* A model of the DocumentRAG pipeline: the field/submission flattener     *)
(* (flatten_helper.py), the index manager (azure_vector_helper.py), the    *)
(* search client (search_helper.py) and the query orchestrator             *)
(* (user_query.py).                                                        *)
(*                                                                         *)
(* Python values are tagged records:                                       *)
(*   [t |-> "none"]            None                                        *)
(*   [t |-> "bool", b |-> B]   True / False                                *)
(*   [t |-> "int",  n |-> N]   an integer                                  *)
(*   [t |-> "str",  s |-> S]   a string without line breaks                *)
(*   [t |-> "dict", items |-> <<<<key, value>>, ...>>]  keys in order      *)
(*   [t |-> "list", elems |-> <<value, ...>>]                              *)
(* A Python string that a function returns is the sequence of its lines    *)
(* (what str.split("\n") gives), so "\n".join concatenates line lists.     *)
(* A call's outcome is Return(v) or Raise(exception name).                 *)
(***************************************************************************)
EXTENDS Integers, Sequences, FiniteSets, TLC

VARIABLES
    \* flattener driver (flatten_helper.py)
    field_data,        \* the field record handed to flatten_field
    flat,              \* outcome of flatten_field(field_data), or NotRun
    submission_doc,    \* the submission handed to flatten_submission
    text               \* outcome of flatten_submission(submission_doc), or NotRun

VARIABLES
    \* index manager (azure_vector_helper.py)
    idx_called,        \* the method of AzureSearchRESTHelper that ran, or "none"
    idx_response,      \* the HTTP response it got (NoResponse: the transport failed)
    idx_outcome,       \* how the method ended: Return(None) or a raise
    idx_log            \* the log records it wrote

VARIABLES
    \* search client (search_helper.py)
    search_args,       \* the arguments of the vector_search call, or NotRun
    search_body,       \* the request body it posted
    search_response,   \* the HTTP response it got
    search_outcome     \* how the call ended: Return(results) or a raise

flattenVars == <<field_data, flat, submission_doc, text>>
indexVars == <<idx_called, idx_response, idx_outcome, idx_log>>
VARIABLES
    \* query orchestrator (user_query.py), one entry per invocation of main()
    hist_file,             \* RAG/conversation_history.json: [exists, text]
    pc,                    \* where each invocation is in main()
    conversation_history,  \* main's conversation_history list
    user_query,            \* main's user_query
    documents,             \* main's documents
    calls,                 \* the functions each invocation has called, in order
    printed                \* what each invocation has printed, in order

searchVars == <<search_args, search_body, search_response, search_outcome>>
queryVars == <<hist_file, pc, conversation_history, user_query, documents, calls, printed>>
VARIABLES
    \* indexing orchestrator (main.py), one invocation of main()
    submission_file,     \* what json.load gives for RAG/submission.json, or Absent
    main_pc,             \* where the invocation is in main()
    submission,          \* main's submission
    text_summary,        \* main's text_summary
    embedding_vector,    \* main's embedding_vector
    embedding_requests,  \* the openai.Embedding.create calls made
    posted,              \* the payloads index_document has posted, in order
    main_printed         \* what main and its helpers have printed, in order

mainVars == <<submission_file, main_pc, submission, text_summary, embedding_vector,
              embedding_requests, posted, main_printed>>
vars == <<flattenVars, indexVars, searchVars, queryVars, mainVars>>

-----------------------------------------------------------------------------
(* Python values *)

None == [t |-> "none"]
PyBoolean(b) == [t |-> "bool", b |-> b]
PyInt(n) == [t |-> "int", n |-> n]
PyString(s) == [t |-> "str", s |-> s]
PyDict(items) == [t |-> "dict", items |-> items]
PyList(elems) == [t |-> "list", elems |-> elems]

Return(v) == [kind |-> "return", value |-> v]
Raise(e) == [kind |-> "raise", exc |-> e]
NotRun == [kind |-> "notrun"]

\* a key that a dict does not hold (not a Python value)
Absent == [t |-> "absent"]

\* response.json() of a body that is no JSON raises json.JSONDecodeError
NotJson == [t |-> "notjson"]
\* no response at all: the request itself raised
NoResponse == [status_code |-> 0, text |-> "", json |-> NotJson]

\* a component that is not running
IdleFlatten ==
    /\ field_data = Absent /\ submission_doc = Absent
    /\ flat = NotRun /\ text = NotRun

IdleIndex ==
    /\ idx_called = "none"
    /\ idx_response = NoResponse
    /\ idx_outcome = NotRun
    /\ idx_log = <<>>

MaxRuns == 2      \* invocations of the query orchestrator

Runs == 1..MaxRuns

\* no invocation of the query orchestrator is started
IdleQuery ==
    /\ hist_file = [exists |-> FALSE, text |-> <<>>]
    /\ pc = [r \in Runs |-> "idle"]
    /\ conversation_history = [r \in Runs |-> <<>>]
    /\ user_query = [r \in Runs |-> <<>>]
    /\ documents = [r \in Runs |-> <<>>]
    /\ calls = [r \in Runs |-> <<>>]
    /\ printed = [r \in Runs |-> <<>>]

IdleSearch ==
    /\ search_args = NotRun
    /\ search_body = Absent
    /\ search_response = NoResponse
    /\ search_outcome = NotRun

\* no invocation of the indexing orchestrator exists
IdleMain ==
    /\ submission_file = Absent
    /\ main_pc = "idle"
    /\ submission = Absent
    /\ text_summary = NotRun
    /\ embedding_vector = Absent
    /\ embedding_requests = 0
    /\ posted = <<>>
    /\ main_printed = <<>>

\* bool(v): Python truthiness
bool(v) ==
    CASE v.t = "none" -> FALSE
      [] v.t = "bool" -> v.b
      [] v.t = "int"  -> v.n # 0
      [] v.t = "str"  -> v.s # ""
      [] v.t = "dict" -> v.items # <<>>
      [] v.t = "list" -> v.elems # <<>>

\* isinstance(v, dict) / isinstance(v, list) / isinstance(v, str)
IsDict(v) == v.t = "dict"
IsList(v) == v.t = "list"
IsStr(v) == v.t = "str"

RECURSIVE repr(_)
RECURSIVE ReprItems(_, _)
RECURSIVE ReprElems(_, _)
\* repr(v), as one line of text
repr(v) ==
    CASE v.t = "none" -> "None"
      [] v.t = "bool" -> IF v.b THEN "True" ELSE "False"
      [] v.t = "int"  -> ToString(v.n)
      [] v.t = "str"  -> "'" \o v.s \o "'"
      [] v.t = "dict" -> "{" \o ReprItems(v.items, 1) \o "}"
      [] v.t = "list" -> "[" \o ReprElems(v.elems, 1) \o "]"
ReprItems(items, i) ==
    IF i > Len(items) THEN ""
    ELSE (IF i > 1 THEN ", " ELSE "")
         \o "'" \o items[i][1] \o "': " \o repr(items[i][2])
         \o ReprItems(items, i + 1)
ReprElems(elems, i) ==
    IF i > Len(elems) THEN ""
    ELSE (IF i > 1 THEN ", " ELSE "") \o repr(elems[i]) \o ReprElems(elems, i + 1)

\* str(v), which is also what an f-string's {v} inserts
str(v) == IF v.t = "str" THEN v.s ELSE repr(v)

\* d.get(key, default) on a dict value
RECURSIVE GetFrom(_, _, _, _)
GetFrom(items, key, default, i) ==
    IF i > Len(items) THEN default
    ELSE IF items[i][1] = key THEN items[i][2]
    ELSE GetFrom(items, key, default, i + 1)
Get(d, key, default) == GetFrom(d.items, key, default, 1)

\* [x for x in seq if keep(x)]
RECURSIVE Truthy(_)
Truthy(seq) ==
    IF seq = <<>> THEN <<>>
    ELSE (IF bool(Head(seq)) THEN <<Head(seq)>> ELSE <<>>) \o Truthy(Tail(seq))

\* sep.join(parts) for single-line strings (TLC strings)
RECURSIVE JoinText(_, _)
JoinText(sep, parts) ==
    IF parts = <<>> THEN ""
    ELSE IF Len(parts) = 1 THEN parts[1]
    ELSE parts[1] \o sep \o JoinText(sep, Tail(parts))

\* sep.join(values): str.join raises TypeError on an item that is no str
Join(sep, values) ==
    IF \E i \in 1..Len(values) : ~IsStr(values[i])
    THEN Raise("TypeError")
    ELSE Return(JoinText(sep, [i \in 1..Len(values) |-> values[i].s]))

\* "\n".join(lines) of strings given as line lists
RECURSIVE JoinLines(_)
JoinLines(strs) ==
    IF strs = <<>> THEN <<"">>
    ELSE IF Len(strs) = 1 THEN strs[1]
    ELSE strs[1] \o JoinLines(Tail(strs))

\* faulty variant: the prefix forgotten
Prepend_nothing(prefix, s) == s

\* prefix + s, for a single-line prefix and a string given as a line list
Prepend(prefix, s) == <<prefix \o s[1]>> \o Tail(s)

-----------------------------------------------------------------------------
(* flatten_helper.py *)

\* faulty variant: the two labels swapped
flatten_checkbox_field_swapped(field_name, value) ==
    LET status == IF value THEN "Unchecked" ELSE "Checked"
    IN  Return(<<str(field_name) \o ": " \o status>>)

flatten_checkbox_field(field_name, value) ==
    LET status == IF value THEN "Checked" ELSE "Unchecked"
    IN  Return(<<str(field_name) \o ": " \o status>>)

flatten_text_field(field_name, value) ==
    Return(<<str(field_name) \o ": " \o value>>)

flatten_number_field(field_name, value) ==
    Return(<<str(field_name) \o ": " \o str(value)>>)

flatten_password_field(field_name) ==
    Return(<<str(field_name) \o ": [REDACTED]">>)

flatten_date_field(field_name, value) ==
    Return(<<str(field_name) \o ": " \o value>>)

flatten_address_field(field_name, address_value) ==
    LET line1 == Get(address_value, "line1", PyString(""))
        line2 == Get(address_value, "line2", PyString(""))
        city == Get(address_value, "city", PyString(""))
        state == Get(address_value, "state", PyString(""))
        zip_code == Get(address_value, "zip", PyString(""))
        parts == <<line1, line2, city, state, zip_code>>
        joined == Join(", ", Truthy(parts))
    IN  IF joined.kind = "raise" THEN joined
        ELSE Return(<<str(field_name) \o ": " \o joined.value>>)

\* ", ".join(f"{k}={v}" for k, v in row.items())
row_content(row) ==
    JoinText(", ", [j \in 1..Len(row.items) |->
                        row.items[j][1] \o "=" \o str(row.items[j][2])])

\* faulty variant: enumerate(rows) without start=1
flatten_table_field_from_zero(field_name, rows) ==
    IF \E i \in 1..Len(rows) : ~IsDict(rows[i])
    THEN Raise("AttributeError")
    ELSE LET lines == <<<<str(field_name) \o ":">>>> \o
                      [i \in 1..Len(rows) |->
                          <<"  Row" \o ToString(i - 1) \o ": [" \o row_content(rows[i]) \o "]">>]
         IN  Return(JoinLines(lines))

flatten_table_field(field_name, rows) ==
    IF \E i \in 1..Len(rows) : ~IsDict(rows[i])
    THEN Raise("AttributeError")      \* row.items() on a row that is no dict
    ELSE LET lines == <<<<str(field_name) \o ":">>>> \o
                      [i \in 1..Len(rows) |->
                          <<"  Row" \o ToString(i) \o ": [" \o row_content(rows[i]) \o "]">>]
         IN  Return(JoinLines(lines))

flatten_signature_field(field_name, value) ==
    LET ts == Get(value, "timestamp", PyString(""))
        file_ref == Get(value, "fileRef", PyString(""))
        text0 == str(field_name) \o ": Signature provided"
        text1 == IF bool(ts) THEN text0 \o " at " \o str(ts) ELSE text0
        text2 == IF bool(file_ref) THEN text1 \o ", file: " \o str(file_ref) ELSE text1
    IN  Return(<<text2>>)

flatten_location_field(field_name, value) ==
    LET lat == Get(value, "lat", None)
        lon == Get(value, "lon", None)
    IN  IF lat # None /\ lon # None
        THEN Return(<<str(field_name) \o ": (Lat=" \o str(lat) \o ", Lon=" \o str(lon) \o ")">>)
        ELSE Return(<<str(field_name) \o ": [Location data]">>)

\* the if/elif chain of flatten_field
Dispatch(field_type, field_name, value) ==
    CASE field_type = PyString("checkbox") ->
            flatten_checkbox_field(field_name, bool(value))
      [] field_type = PyString("text") ->
            flatten_text_field(field_name, str(value))
      [] field_type = PyString("number") ->
            flatten_number_field(field_name, value)
      [] field_type = PyString("password") ->
            flatten_password_field(field_name)
      [] field_type = PyString("date") ->
            flatten_date_field(field_name, str(value))
      [] field_type = PyString("address") ->
            IF IsDict(value) THEN flatten_address_field(field_name, value)
            ELSE Return(<<str(field_name) \o ": [Invalid address data]">>)
      [] field_type = PyString("table") ->
            IF IsList(value) THEN flatten_table_field(field_name, value.elems)
            ELSE Return(<<str(field_name) \o ": [Invalid table data]">>)
      [] field_type = PyString("signature") ->
            IF IsDict(value) THEN flatten_signature_field(field_name, value)
            ELSE Return(<<str(field_name) \o ": [Signature provided]">>)
      [] field_type = PyString("location") ->
            IF IsDict(value) THEN flatten_location_field(field_name, value)
            ELSE Return(<<str(field_name) \o ": [Location data]">>)
      [] OTHER ->
            Return(<<str(field_name) \o ": " \o str(value)>>)

\* faulty variant: a password field handled like a text field
flatten_field_password_as_text(fd) ==
    Dispatch(IF Get(fd, "fieldType", None) = PyString("password")
             THEN PyString("text") ELSE Get(fd, "fieldType", None),
             Get(fd, "fieldName", PyString("UnknownField")),
             Get(fd, "value", None))

flatten_field(fd) ==
    Dispatch(Get(fd, "fieldType", None),
             Get(fd, "fieldName", PyString("UnknownField")),
             Get(fd, "value", None))

\* the loop of flatten_submission: one appended entry per field, until one raises
RECURSIVE FieldLines(_, _)
FieldLines(field_values, i) ==
    IF i > Len(field_values) THEN Return(<<>>)
    ELSE LET flattened_text == flatten_field(field_values[i])
         IN  IF flattened_text.kind = "raise" THEN flattened_text
             ELSE LET rest == FieldLines(field_values, i + 1)
                  IN  IF rest.kind = "raise" THEN rest
                      ELSE Return(<<Prepend("  ", flattened_text.value)>> \o rest.value)

flatten_submission(doc) ==
    LET submission_id == Get(doc, "_id", PyString(""))
        folder_id == Get(doc, "folder_id", PyString(""))
        document_id == Get(doc, "document_id", PyString(""))
        user_id == Get(doc, "user_id", PyString(""))
        timestamp == Get(doc, "timestamp", PyString(""))
        header == << <<"Submission (Result ID: " \o str(submission_id) \o ")">>,
                     <<"For Document: " \o str(document_id) \o " in Folder: "
                          \o str(folder_id) \o ".">>,
                     <<"Owned by user: " \o str(user_id) \o ".">>,
                     <<"Timestamp: " \o str(timestamp) \o ".">>,
                     <<"Field Values:">> >>
        field_values == Get(doc, "fieldValues", PyList(<<>>))
        body == FieldLines(field_values.elems, 1)
    IN  IF body.kind = "raise" THEN body
        ELSE Return(JoinLines(header \o body.value))

-----------------------------------------------------------------------------
(* Inputs of the flattener *)

MaxRows == 2      \* longest table value drawn
MaxFields == 2    \* longest fieldValues list drawn

Opt(key, v) == IF v = Absent THEN <<>> ELSE <<<<key, v>>>>

SeqsUpTo(S, n) == UNION {[1..k -> S] : k \in 0..n}

Scalars ==
    {None, PyBoolean(TRUE), PyBoolean(FALSE), PyInt(0), PyInt(7),
     PyString(""), PyString("false"), PyString("secret")}

AddressValues ==
    {PyDict(Opt("line1", l1) \o Opt("line2", l2) \o Opt("city", c)
            \o Opt("state", s) \o Opt("zip", z)) :
        l1 \in {Absent, PyString(""), PyString("123 Main St")},
        l2 \in {Absent, None, PyString("Apt 2")},
        c \in {Absent, PyString(""), PyString("Springfield")},
        s \in {Absent, PyString("IL")},
        z \in {Absent, PyString("12345"), PyInt(12345), PyInt(0)}}

SignatureValues ==
    {PyDict(Opt("timestamp", ts) \o Opt("fileRef", f)) :
        ts \in {Absent, PyString(""), PyString("2025-04-15T10:00:00Z")},
        f \in {Absent, None, PyString("sig_abc.png")}}

LocationValues ==
    {PyDict(Opt("lat", lat) \o Opt("lon", lon)) :
        lat \in {Absent, None, PyInt(0), PyInt(35)},
        lon \in {Absent, None, PyInt(139)}}

RowObjects ==
    {PyDict(<<>>),
     PyDict(<<<<"Item", PyString("Paper Clips")>>>>),
     PyDict(<<<<"Item", PyString("Markers")>>, <<"Quantity", PyInt(5)>>>>)}

\* what a table value's list may hold: row objects, and entries that are none
RowValues == RowObjects \cup {PyInt(5), PyString("Markers")}

TableValues == {PyList(rows) : rows \in SeqsUpTo(RowValues, MaxRows)}

Values == Scalars \cup AddressValues \cup SignatureValues \cup LocationValues
            \cup TableValues

FieldTypes ==
    {PyString("checkbox"), PyString("text"), PyString("number"), PyString("password"),
     PyString("date"), PyString("address"), PyString("table"), PyString("signature"),
     PyString("location"), PyString("rating"), None}

FieldRecord(field_type, field_name, value) ==
    PyDict(Opt("fieldType", field_type) \o Opt("fieldName", field_name)
           \o Opt("value", value))

FieldRecords ==
    {FieldRecord(ft, fn, v) :
        ft \in FieldTypes \cup {Absent},
        fn \in {Absent, PyString("Name")},
        v \in Values \cup {Absent}}

\* the field records submissions are built from
SubmissionFields ==
    {FieldRecord(PyString("text"), PyString("FirstName"), PyString("Alice")),
     FieldRecord(PyString("checkbox"), PyString("NewsletterOpt"), PyBoolean(TRUE)),
     FieldRecord(PyString("password"), PyString("Pin"), PyString("secret")),
     FieldRecord(PyString("address"), PyString("Home"),
                 PyDict(<<<<"line1", PyString("123 Main St")>>, <<"state", PyString("IL")>>>>)),
     FieldRecord(PyString("address"), PyString("Home"), PyString("123 Main St")),
     FieldRecord(PyString("table"), PyString("OrderItems"), PyList(<<>>)),
     FieldRecord(PyString("table"), PyString("OrderItems"),
                 PyList(<<PyDict(<<<<"Item", PyString("Paper Clips")>>, <<"Quantity", PyInt(3)>>>>),
                          PyDict(<<<<"Item", PyString("Markers")>>, <<"Quantity", PyInt(5)>>>>)>>)),
     FieldRecord(PyString("table"), PyString("OrderItems"), PyList(<<PyInt(5)>>)),
     FieldRecord(PyString("table"), PyString("OrderItems"), None),
     FieldRecord(PyString("location"), PyString("Site"),
                 PyDict(<<<<"lat", PyInt(35)>>, <<"lon", PyInt(139)>>>>)),
     FieldRecord(PyString("rating"), Absent, PyInt(7))}

Submission(id, user, folder, document, ts, fields) ==
    PyDict(Opt("_id", id) \o Opt("user_id", user) \o Opt("folder_id", folder)
           \o Opt("document_id", document) \o Opt("timestamp", ts)
           \o Opt("fieldValues", fields))

Submissions ==
    {Submission(h[1], h[2], h[3], h[4], h[5], fields) :
        h \in {<<PyString("result123"), PyString("userXYZ"), PyString("folderABC"),
                 PyString("doc789"), PyString("2025-04-15T10:00:00Z")>>,
               <<Absent, Absent, Absent, Absent, Absent>>,
               <<PyString("result123"), PyString(""), Absent, PyString("doc789"), None>>},
        fields \in {Absent} \cup {PyList(fs) : fs \in SeqsUpTo(SubmissionFields, MaxFields)}}

-----------------------------------------------------------------------------
(* The flattener, called on one input *)

InitFlatten ==
    /\ IdleIndex /\ IdleSearch /\ IdleQuery /\ IdleMain
    /\ \/ field_data \in FieldRecords /\ submission_doc = Absent
       \/ field_data = Absent /\ submission_doc \in Submissions
    /\ flat = NotRun
    /\ text = NotRun

CallFlattenField ==
    /\ field_data # Absent
    /\ flat = NotRun
    /\ flat' = flatten_field(field_data)
    /\ UNCHANGED <<field_data, submission_doc, text>>
    /\ UNCHANGED <<indexVars, searchVars, queryVars, mainVars>>

CallFlattenSubmission ==
    /\ submission_doc # Absent
    /\ text = NotRun
    /\ text' = flatten_submission(submission_doc)
    /\ UNCHANGED <<field_data, submission_doc, flat>>
    /\ UNCHANGED <<indexVars, searchVars, queryVars, mainVars>>

NextFlatten == CallFlattenField \/ CallFlattenSubmission

SpecFlatten == InitFlatten /\ [][NextFlatten]_vars

-----------------------------------------------------------------------------
(* azure_vector_helper.py: AzureSearchRESTHelper *)

\* self.index_name: ACS_INDEX_NAME, by default "knowledge-index"
IndexName == "knowledge-index"

RaiseWith(e, message) == [kind |-> "raise", exc |-> e, message |-> message]
LogRecord(level, message) == [level |-> level, message |-> message]


Statuses == {200, 201, 202, 204, 301, 400, 401, 403, 404, 409, 412, 429, 500, 503}

Bodies ==
    {[text |-> "", json |-> NotJson],
     [text |-> "Service Unavailable", json |-> NotJson],
     [text |-> "{error: {code: X, message: Index is in use}}",
      json |-> PyDict(<<<<"error", PyDict(<<<<"code", PyString("X")>>,
                                            <<"message", PyString("Index is in use")>>>>)>>>>)],
     [text |-> "{}", json |-> PyDict(<<>>)],
     [text |-> "{error: denied}", json |-> PyDict(<<<<"error", PyString("denied")>>>>)]}

Responses ==
    {[status_code |-> st, text |-> b.text, json |-> b.json] : st \in Statuses, b \in Bodies}

\* response.json().get("error", {}).get("message", response.text), with the
\* except json.JSONDecodeError around it: Return(message) or the exception that
\* escapes (.get on a value that is no dict)
error_message(response) ==
    IF response.json = NotJson THEN Return(PyString(response.text))
    ELSE IF ~IsDict(response.json) THEN Raise("AttributeError")
    ELSE LET error == Get(response.json, "error", PyDict(<<>>))
         IN  IF ~IsDict(error) THEN Raise("AttributeError")
             ELSE Return(Get(error, "message", PyString(response.text)))

\* the else branch of both methods: log the failure and raise Exception
FailWith(prefix, response) ==
    LET m == error_message(response)
    IN  IF m.kind = "raise"
        THEN [outcome |-> RaiseWith(m.exc, ""), log |-> <<>>]
        ELSE [outcome |-> RaiseWith("Exception", prefix \o str(m.value)),
              log |-> <<LogRecord("error", prefix \o str(m.value))>>]

create_or_update_index(response) ==
    IF response = NoResponse
    THEN [outcome |-> RaiseWith("ConnectionError", ""), log |-> <<>>]
    ELSE IF response.status_code \in {200, 201}
    THEN [outcome |-> Return(None),
          log |-> <<LogRecord("info", "Index '" \o IndexName \o "' created/updated successfully.")>>]
    ELSE FailWith("Failed to create/update index '" \o IndexName \o "': ", response)

\* faulty variant: every 2xx status taken as success
delete_index_any_2xx(response) ==
    IF response = NoResponse
    THEN [outcome |-> RaiseWith("ConnectionError", ""), log |-> <<>>]
    ELSE IF response.status_code \in 200..299
    THEN [outcome |-> Return(None),
          log |-> <<LogRecord("info", "Index '" \o IndexName \o "' deleted successfully.")>>]
    ELSE IF response.status_code = 404
    THEN [outcome |-> Return(None),
          log |-> <<LogRecord("warning", "Index '" \o IndexName \o "' does not exist.")>>]
    ELSE FailWith("Failed to delete index '" \o IndexName \o "': ", response)

delete_index(response) ==
    IF response = NoResponse
    THEN [outcome |-> RaiseWith("ConnectionError", ""), log |-> <<>>]
    ELSE IF response.status_code = 204
    THEN [outcome |-> Return(None),
          log |-> <<LogRecord("info", "Index '" \o IndexName \o "' deleted successfully.")>>]
    ELSE IF response.status_code = 404
    THEN [outcome |-> Return(None),
          log |-> <<LogRecord("warning", "Index '" \o IndexName \o "' does not exist.")>>]
    ELSE FailWith("Failed to delete index '" \o IndexName \o "': ", response)

InitIndex == IdleIndex /\ IdleFlatten /\ IdleSearch /\ IdleQuery /\ IdleMain

\* setup_index.py: one create_or_update_index call on a constructed helper
CreateOrUpdateIndex ==
    /\ idx_called = "none"
    /\ \E response \in Responses \cup {NoResponse} :
          /\ idx_response' = response
          /\ idx_outcome' = create_or_update_index(response).outcome
          /\ idx_log' = idx_log \o create_or_update_index(response).log
    /\ idx_called' = "create_or_update_index"
    /\ UNCHANGED <<flattenVars, searchVars, queryVars, mainVars>>

\* delete_index.py: one delete_index call on a constructed helper
DeleteIndex ==
    /\ idx_called = "none"
    /\ \E response \in Responses \cup {NoResponse} :
          /\ idx_response' = response
          /\ idx_outcome' = delete_index(response).outcome
          /\ idx_log' = idx_log \o delete_index(response).log
    /\ idx_called' = "delete_index"
    /\ UNCHANGED <<flattenVars, searchVars, queryVars, mainVars>>

NextIndex == CreateOrUpdateIndex \/ DeleteIndex

SpecIndex == InitIndex /\ [][NextIndex]_vars

\* C1: after delete_index got an HTTP response, it has returned normally exactly
\* when the status is 204 or 404, and raised for every other status (200 and
\* 202 included).
C1_DeleteReturnsOn204And404Only ==
    (idx_called = "delete_index" /\ idx_response # NoResponse) =>
        /\ idx_response.status_code \in {204, 404} => idx_outcome = Return(None)
        /\ idx_response.status_code \notin {204, 404} => idx_outcome.kind = "raise"

C1_Witness ==
    /\ idx_called = "delete_index"
    /\ idx_response.status_code = 404
    /\ idx_outcome = Return(None)
    /\ idx_log = <<LogRecord("warning", "Index 'knowledge-index' does not exist.")>>

\* the message the server sent: the 'error.message' of a JSON body, else the
\* raw response text
ServerMessage(response) ==
    IF /\ response.json # NotJson
       /\ IsDict(response.json)
       /\ IsDict(Get(response.json, "error", None))
       /\ Get(Get(response.json, "error", None), "message", Absent) # Absent
    THEN str(Get(Get(response.json, "error", None), "message", Absent))
    ELSE response.text

\* C11: after create_or_update_index got an HTTP response, it has returned
\* normally when the status is 200 or 201, and for every other status (204
\* included) it has raised an exception whose message ends with the message the
\* server sent: error.message of the JSON body, else the raw response text.
C11_CreateRaisesWithServerMessage ==
    (idx_called = "create_or_update_index" /\ idx_response # NoResponse) =>
        /\ idx_response.status_code \in {200, 201} => idx_outcome = Return(None)
        /\ idx_response.status_code \notin {200, 201} =>
              idx_outcome =
                 RaiseWith("Exception",
                           "Failed to create/update index 'knowledge-index': "
                              \o ServerMessage(idx_response))

-----------------------------------------------------------------------------
(* search_helper.py: SearchHelper.vector_search *)

MaxDocs == 2      \* most documents a search response lists

RaisedBy(status_code) == status_code >= 400     \* response.raise_for_status()
HttpErrorText(status_code) == ToString(status_code) \o " Error"   \* str(http_err)

\* the request body, lines 50-67
search_request_body(embedding, top_k, user_id) ==
    PyDict(<< <<"search", PyString("*")>>,
              <<"vectorQueries",
                PyList(<<PyDict(<< <<"kind", PyString("vector")>>,
                                   <<"vector", embedding>>,
                                   <<"fields", PyString("contentVector")>>,
                                   <<"k", top_k>>,
                                   <<"exhaustive", PyBoolean(FALSE)>> >>)>>)>>,
              <<"select", PyString("id, userId, folderId, documentId, type, content, metadata")>>,
              <<"top", top_k>> >>
           \o (IF bool(user_id)
               THEN <<<<"filter", PyString("userId eq '" \o str(user_id) \o "'")>>>>
               ELSE <<>>))

\* the try/except around the request, lines 69-84
search_result(response) ==
    IF response = NoResponse THEN RaiseWith("ConnectionError", "")
    ELSE IF RaisedBy(response.status_code)
    THEN \* except requests.exceptions.HTTPError
         IF response.json = NotJson
         THEN RaiseWith("Exception", "HTTP error during vector search: "
                                        \o HttpErrorText(response.status_code))
         ELSE IF ~IsDict(response.json) \/ ~IsDict(Get(response.json, "error", PyDict(<<>>)))
         THEN RaiseWith("AttributeError", "")
         ELSE RaiseWith("Exception", "HTTP error during vector search: "
                 \o str(Get(Get(response.json, "error", PyDict(<<>>)), "message",
                            PyString(HttpErrorText(response.status_code)))))
    ELSE \* results = response.json(); len(results.get('value', []))
         IF response.json = NotJson THEN RaiseWith("JSONDecodeError", "")
         ELSE IF ~IsDict(response.json) THEN RaiseWith("AttributeError", "")
         ELSE IF ~IsList(Get(response.json, "value", PyList(<<>>)))
         THEN RaiseWith("TypeError", "")
         ELSE Return(response.json)

vector_search(embedding, top_k, user_id, response) ==
    [body |-> search_request_body(embedding, top_k, user_id),
     outcome |-> search_result(response)]

Embeddings == {PyList(<<PyInt(0), PyInt(1)>>), PyList(<<PyInt(1), PyInt(1)>>)}

SearchDoc(id, content) ==
    PyDict(<< <<"id", PyString(id)>>, <<"userId", PyString("userXYZ")>>,
              <<"folderId", PyString("folderABC")>>, <<"documentId", PyString("doc789")>>,
              <<"type", PyString("submission")>>, <<"content", PyString(content)>>,
              <<"metadata", PyString("{}")>> >>)

SearchDocs == {SearchDoc("result123", "Submission (Result ID: result123)"),
               SearchDoc("result456", "Submission (Result ID: result456)")}

SearchResponses ==
    {[status_code |-> 200, text |-> "{value: [...]}",
      json |-> PyDict(<<<<"value", PyList(docs)>>>>)] : docs \in SeqsUpTo(SearchDocs, MaxDocs)}
    \cup
    {[status_code |-> 200, text |-> "{}", json |-> PyDict(<<>>)],
     [status_code |-> 200, text |-> "{value: null}", json |-> PyDict(<<<<"value", None>>>>)],
     [status_code |-> 200, text |-> "<html>", json |-> NotJson],
     [status_code |-> 403, text |-> "{error: {message: Forbidden}}",
      json |-> PyDict(<<<<"error", PyDict(<<<<"message", PyString("Forbidden")>>>>)>>>>)],
     [status_code |-> 400, text |-> "{error: bad}",
      json |-> PyDict(<<<<"error", PyString("bad")>>>>)],
     [status_code |-> 500, text |-> "Internal Server Error", json |-> NotJson],
     NoResponse}

\* user_id as callers may pass it: omitted (None), empty, or an identifier
UserIds == {None, PyString(""), PyString("userXYZ"), PyString("user2")}

InitSearch == IdleSearch /\ IdleFlatten /\ IdleIndex /\ IdleQuery /\ IdleMain

VectorSearch ==
    /\ search_args = NotRun
    /\ \E embedding \in Embeddings, top_k \in {PyInt(1), PyInt(5)}, user_id \in UserIds,
          response \in SearchResponses :
          /\ search_args' = [embedding |-> embedding, top_k |-> top_k, user_id |-> user_id]
          /\ search_body' = vector_search(embedding, top_k, user_id, response).body
          /\ search_response' = response
          /\ search_outcome' = vector_search(embedding, top_k, user_id, response).outcome
    /\ UNCHANGED <<flattenVars, indexVars, queryVars, mainVars>>

NextSearch == VectorSearch

SpecSearch == InitSearch /\ [][NextSearch]_vars

\* C5: a vector_search call with a user_id supplied (any value, the empty string
\* included) posts a body whose 'filter' is "userId eq '<id>'"; with user_id
\* omitted (None) the body has no 'filter' key.
C5_FilterIffUserIdSupplied ==
    search_args # NotRun =>
        IF search_args.user_id = None
        THEN Get(search_body, "filter", Absent) = Absent
        ELSE Get(search_body, "filter", Absent) =
                PyString("userId eq '" \o search_args.user_id.s \o "'")

-----------------------------------------------------------------------------
(* user_query.py: the conversation-history file *)

\* Text here is a sequence of pieces: a piece is a character that matters to
\* JSON (quote, backslash, line break, bracket, brace, colon, comma, blank) or
\* a run of other characters.
Message(role, content) == [role |-> role, content |-> content]

\* json.dump's string escaping (ensure_ascii=False: other characters as they are)
RECURSIVE Escape(_)
Escape(chars) ==
    IF chars = <<>> THEN <<>>
    ELSE (CASE Head(chars) = "\"" -> <<"\\", "\"">>
            [] Head(chars) = "\\" -> <<"\\", "\\">>
            [] Head(chars) = "\n" -> <<"\\", "n">>
            [] OTHER -> <<Head(chars)>>)
         \o Escape(Tail(chars))

\* faulty variant: quotes and backslashes written as they are
Quoted_unescaped(chars) == <<"\"">> \o chars \o <<"\"">>

Quoted(chars) == <<"\"">> \o Escape(chars) \o <<"\"">>

\* the line break and indentation json.dump(indent=4) puts between items
Indent == "\n    "

DumpMessage(m) ==
    <<"{", Indent>> \o Quoted(<<"role">>) \o <<":", " ">> \o Quoted(m.role)
    \o <<",", Indent>> \o Quoted(<<"content">>) \o <<":", " ">> \o Quoted(m.content)
    \o <<Indent, "}">>

RECURSIVE DumpMessages(_)
DumpMessages(history) ==
    IF Len(history) = 1 THEN DumpMessage(history[1])
    ELSE DumpMessage(history[1]) \o <<",", Indent>> \o DumpMessages(Tail(history))

\* json.dump(history, f, ensure_ascii=False, indent=4): the text written
json_dump(history) ==
    IF history = <<>> THEN <<"[", "]">>
    ELSE <<"[", Indent>> \o DumpMessages(history) \o <<Indent, "]">>

\* json.load: a parser of the texts json_dump writes, whole or cut short;
\* each step gives [ok, value, next], ok = FALSE for json.JSONDecodeError
ParseError == [ok |-> FALSE, value |-> <<>>, next |-> 0]
Parsed(v, next) == [ok |-> TRUE, value |-> v, next |-> next]

RECURSIVE SkipWs(_, _)
SkipWs(t, i) ==
    IF i <= Len(t) /\ t[i] \in {" ", Indent} THEN SkipWs(t, i + 1) ELSE i

RECURSIVE ReadChars(_, _, _)
ReadChars(t, i, acc) ==
    IF i > Len(t) THEN ParseError
    ELSE IF t[i] = "\"" THEN Parsed(acc, i + 1)
    ELSE IF t[i] = "\n" THEN ParseError
    ELSE IF t[i] = "\\"
    THEN IF i + 1 > Len(t) THEN ParseError
         ELSE IF t[i + 1] = "\"" THEN ReadChars(t, i + 2, Append(acc, "\""))
         ELSE IF t[i + 1] = "\\" THEN ReadChars(t, i + 2, Append(acc, "\\"))
         ELSE IF t[i + 1] = "n" THEN ReadChars(t, i + 2, Append(acc, "\n"))
         ELSE ParseError
    ELSE ReadChars(t, i + 1, Append(acc, t[i]))

ParseString(t, i) ==
    IF i <= Len(t) /\ t[i] = "\"" THEN ReadChars(t, i + 1, <<>>) ELSE ParseError

\* "key": "value" pairs up to the closing brace; the steps after the key, the
\* colon and the value are operators of their own
RECURSIVE ParseMembers(_, _, _)
MembersAfterValue(t, key, val, after, acc) ==
    IF after > Len(t) THEN ParseError
    ELSE IF t[after] = "," THEN ParseMembers(t, after + 1, Append(acc, <<key.value, val.value>>))
    ELSE IF t[after] = "}" THEN Parsed(Append(acc, <<key.value, val.value>>), after + 1)
    ELSE ParseError

MembersAfterColon(t, key, val, acc) ==
    IF ~val.ok THEN ParseError
    ELSE MembersAfterValue(t, key, val, SkipWs(t, val.next), acc)

MembersAfterKey(t, key, colon, acc) ==
    IF colon > Len(t) \/ t[colon] # ":" THEN ParseError
    ELSE MembersAfterColon(t, key, ParseString(t, SkipWs(t, colon + 1)), acc)

MembersFrom(t, key, acc) ==
    IF ~key.ok THEN ParseError
    ELSE MembersAfterKey(t, key, SkipWs(t, key.next), acc)

ParseMembers(t, i, acc) == MembersFrom(t, ParseString(t, SkipWs(t, i)), acc)

MessageOf(members) ==
    IF ~members.ok THEN ParseError
    ELSE IF /\ Len(members.value) = 2
            /\ members.value[1][1] = <<"role">>
            /\ members.value[2][1] = <<"content">>
    THEN Parsed(Message(members.value[1][2], members.value[2][2]), members.next)
    ELSE ParseError

ParseMessage(t, i) ==
    IF i > Len(t) \/ t[i] # "{" THEN ParseError
    ELSE MessageOf(ParseMembers(t, i + 1, <<>>))

RECURSIVE ParseElements(_, _, _)
ElementsAfter(t, m, after, acc) ==
    IF after > Len(t) THEN ParseError
    ELSE IF t[after] = "," THEN ParseElements(t, after + 1, Append(acc, m.value))
    ELSE IF t[after] = "]" THEN Parsed(Append(acc, m.value), after + 1)
    ELSE ParseError

ElementsFrom(t, m, acc) ==
    IF ~m.ok THEN ParseError
    ELSE ElementsAfter(t, m, SkipWs(t, m.next), acc)

ParseElements(t, i, acc) == ElementsFrom(t, ParseMessage(t, SkipWs(t, i)), acc)

ArrayBody(t, start, first) ==
    IF first <= Len(t) /\ t[first] = "]" THEN Parsed(<<>>, first + 1)
    ELSE ParseElements(t, start + 1, <<>>)

ParseArray(t, start) ==
    IF start > Len(t) \/ t[start] # "[" THEN ParseError
    ELSE ArrayBody(t, start, SkipWs(t, start + 1))

LoadResult(t, array) ==
    IF ~array.ok THEN Raise("JSONDecodeError")
    ELSE IF SkipWs(t, array.next) <= Len(t) THEN Raise("JSONDecodeError")   \* extra data
    ELSE Return(array.value)

json_load(t) == LoadResult(t, ParseArray(t, SkipWs(t, 1)))

load_conversation_history(file) ==
    IF file.exists
    THEN LET history == json_load(file.text)
         IN  IF history.kind = "raise" THEN <<>> ELSE history.value
    ELSE <<>>

\* faulty variant: the open keeps what the file holds
OpenForWriting_keeping(file) == [exists |-> TRUE, text |-> file.text]

\* open(CONVERSATION_HISTORY_FILE, "w"): the file is created or emptied
OpenForWriting(file) == [exists |-> TRUE, text |-> <<>>]

\* the write of the dumped text, from the start of the file, over what the file
\* holds by then (nothing, unless another invocation wrote since the open)
WriteFromStart(file, new) ==
    [exists |-> TRUE, text |-> new \o SubSeq(file.text, Len(new) + 1, Len(file.text))]

\* str.strip()
RECURSIVE StripLeft(_)
StripLeft(chars) ==
    IF chars # <<>> /\ Head(chars) \in {" ", "\n"} THEN StripLeft(Tail(chars)) ELSE chars
RECURSIVE StripRight(_)
StripRight(chars) ==
    IF chars # <<>> /\ chars[Len(chars)] \in {" ", "\n"}
    THEN StripRight(SubSeq(chars, 1, Len(chars) - 1)) ELSE chars
Strip(chars) == StripRight(StripLeft(chars))

-----------------------------------------------------------------------------
(* user_query.py: main() *)

\* what RAG/query.txt may hold, and what the chat model may answer
QueryTexts == {<<"hi", "\n">>, <<"say", " ", "\"", "\\">>}
AnswerTexts == {<<"ok">>, <<" ", "a", "\n", "n">>}

\* the search responses the orchestrator is run against: those of SearchResponses
\* that list no document or the first one
QueryResponses ==
    {r \in SearchResponses :
        r.json # NotJson /\ IsDict(r.json) /\ IsList(Get(r.json, "value", None))
            => Get(r.json, "value", None).elems \in
                  {<<>>, <<SearchDoc("result123", "Submission (Result ID: result123)")>>}}

\* what get_embedding returns for the query
QueryEmbedding == PyList(<<PyInt(0), PyInt(1)>>)

\* os.getenv("CURRENT_USER_ID", "userXYZ")
CurrentUserIds == {PyString("userXYZ"), PyString("")}

Called(r, f) == calls' = [calls EXCEPT ![r] = Append(@, f)]
Shows(r, line) == printed' = [printed EXCEPT ![r] = Append(@, line)]

InitQuery ==
    /\ IdleFlatten /\ IdleIndex /\ IdleSearch /\ IdleMain
    /\ hist_file = [exists |-> FALSE, text |-> <<>>]
    /\ pc = [r \in Runs |-> "init"]
    /\ conversation_history = [r \in Runs |-> <<>>]
    /\ user_query = [r \in Runs |-> <<>>]
    /\ documents = [r \in Runs |-> <<>>]
    /\ calls = [r \in Runs |-> <<>>]
    /\ printed = [r \in Runs |-> <<>>]

\* lines 135-144: load_env, EmbeddingHelper(), SearchHelper(); a constructor
\* that raises ends the process
InitHelpers(r) ==
    /\ pc[r] = "init"
    /\ \/ pc' = [pc EXCEPT ![r] = "load"]
       \/ pc' = [pc EXCEPT ![r] = "crashed"]
    /\ UNCHANGED <<hist_file, conversation_history, user_query, documents, calls, printed>>
    /\ UNCHANGED <<flattenVars, indexVars, searchVars, mainVars>>

\* line 147
LoadHistory(r) ==
    /\ pc[r] = "load"
    /\ conversation_history' =
          [conversation_history EXCEPT ![r] = load_conversation_history(hist_file)]
    /\ Called(r, "load_conversation_history")
    /\ pc' = [pc EXCEPT ![r] = "get_query"]
    /\ UNCHANGED <<hist_file, user_query, documents, printed>>
    /\ UNCHANGED <<flattenVars, indexVars, searchVars, mainVars>>

\* faulty variant: a run without a query goes on to the save
GetUserQuery_then_save(r) ==
    /\ pc[r] = "get_query"
    /\ Called(r, "get_user_query")
    /\ \/ \E raw \in QueryTexts :
             /\ user_query' = [user_query EXCEPT ![r] = Strip(raw)]
             /\ Shows(r, "query")
             /\ pc' = [pc EXCEPT ![r] = "embed"]
       \/ /\ Shows(r, "Error loading user query")
          /\ pc' = [pc EXCEPT ![r] = "save"]
          /\ UNCHANGED user_query
    /\ UNCHANGED <<hist_file, conversation_history, documents>>
    /\ UNCHANGED <<flattenVars, indexVars, searchVars, mainVars>>

\* lines 150-154
GetUserQuery(r) ==
    /\ pc[r] = "get_query"
    /\ Called(r, "get_user_query")
    /\ \/ \E raw \in QueryTexts :
             /\ user_query' = [user_query EXCEPT ![r] = Strip(raw)]
             /\ Shows(r, "query")
             /\ pc' = [pc EXCEPT ![r] = "embed"]
       \/ /\ Shows(r, "Error loading user query")
          /\ pc' = [pc EXCEPT ![r] = "done"]
          /\ UNCHANGED user_query
    /\ UNCHANGED <<hist_file, conversation_history, documents>>
    /\ UNCHANGED <<flattenVars, indexVars, searchVars, mainVars>>

\* faulty variant: the run goes on to the search after a failed embedding
GetEmbedding_continues(r) ==
    /\ pc[r] = "embed"
    /\ Called(r, "get_embedding")
    /\ \/ /\ pc' = [pc EXCEPT ![r] = "search"]
          /\ UNCHANGED printed
       \/ /\ Shows(r, "Error generating embedding. Please try again later.")
          /\ pc' = [pc EXCEPT ![r] = "search"]
    /\ UNCHANGED <<hist_file, conversation_history, user_query, documents>>
    /\ UNCHANGED <<flattenVars, indexVars, searchVars, mainVars>>

\* lines 157-162
GetEmbedding(r) ==
    /\ pc[r] = "embed"
    /\ Called(r, "get_embedding")
    /\ \/ /\ pc' = [pc EXCEPT ![r] = "search"]
          /\ UNCHANGED printed
       \/ /\ Shows(r, "Error generating embedding. Please try again later.")
          /\ pc' = [pc EXCEPT ![r] = "done"]
    /\ UNCHANGED <<hist_file, conversation_history, user_query, documents>>
    /\ UNCHANGED <<flattenVars, indexVars, searchVars, mainVars>>

\* faulty variant: no check for an empty result
VectorSearchStep_without_check(r) ==
    /\ pc[r] = "search"
    /\ Called(r, "vector_search")
    /\ \E user_id \in CurrentUserIds, response \in QueryResponses :
          LET search_results == vector_search(QueryEmbedding, PyInt(5), user_id, response).outcome
              found == Get(search_results.value, "value", PyList(<<>>))
          IN  IF search_results.kind = "raise"
              THEN /\ Shows(r, "Error performing search")
                   /\ pc' = [pc EXCEPT ![r] = "done"]
                   /\ UNCHANGED documents
              ELSE /\ Shows(r, "Top Relevant Documents")
                   /\ documents' = [documents EXCEPT ![r] = found.elems]
                   /\ pc' = [pc EXCEPT ![r] = "chat"]
    /\ UNCHANGED <<hist_file, conversation_history, user_query>>
    /\ UNCHANGED <<flattenVars, indexVars, searchVars, mainVars>>

\* lines 165-186
VectorSearchStep(r) ==
    /\ pc[r] = "search"
    /\ Called(r, "vector_search")
    /\ \E user_id \in CurrentUserIds, response \in QueryResponses :
          LET search_results == vector_search(QueryEmbedding, PyInt(5), user_id, response).outcome
              found == Get(search_results.value, "value", PyList(<<>>))
          IN  IF search_results.kind = "raise"
              THEN /\ Shows(r, "Error performing search")
                   /\ pc' = [pc EXCEPT ![r] = "done"]
                   /\ UNCHANGED documents
              ELSE IF ~bool(found)
              THEN /\ Shows(r, "No relevant documents found.")
                   /\ pc' = [pc EXCEPT ![r] = "done"]
                   /\ UNCHANGED documents
              ELSE /\ Shows(r, "Top Relevant Documents")
                   /\ documents' = [documents EXCEPT ![r] = found.elems]
                   /\ pc' = [pc EXCEPT ![r] = "chat"]
    /\ UNCHANGED <<hist_file, conversation_history, user_query>>
    /\ UNCHANGED <<flattenVars, indexVars, searchVars, mainVars>>

\* faulty variant: the fallback answer is recorded as an assistant message
ChatCompletion_fallback_recorded(r) ==
    /\ pc[r] = "chat"
    /\ Called(r, "chat_completion")
    /\ LET asked == Append(conversation_history[r], Message(<<"user">>, user_query[r]))
       IN  \/ \E raw \in AnswerTexts :
                 /\ conversation_history' =
                       [conversation_history EXCEPT
                           ![r] = Append(asked, Message(<<"assistant">>, Strip(raw)))]
                 /\ Shows(r, "Answer")
           \/ /\ conversation_history' =
                    [conversation_history EXCEPT
                        ![r] = Append(asked, Message(<<"assistant">>, <<"sorry">>))]
              /\ Shows(r, "Answer: I'm sorry, I couldn't generate a response at this time.")
    /\ pc' = [pc EXCEPT ![r] = "save"]
    /\ UNCHANGED <<hist_file, user_query, documents>>
    /\ UNCHANGED <<flattenVars, indexVars, searchVars, mainVars>>

\* lines 189-194 with process_results_with_openai_chat, lines 94-131
ChatCompletion(r) ==
    /\ pc[r] = "chat"
    /\ Called(r, "chat_completion")
    /\ LET asked == Append(conversation_history[r], Message(<<"user">>, user_query[r]))
       IN  \/ \E raw \in AnswerTexts :
                 /\ conversation_history' =
                       [conversation_history EXCEPT
                           ![r] = Append(asked, Message(<<"assistant">>, Strip(raw)))]
                 /\ Shows(r, "Answer")
           \/ /\ conversation_history' = [conversation_history EXCEPT ![r] = asked]
              /\ Shows(r, "Answer: I'm sorry, I couldn't generate a response at this time.")
    /\ pc' = [pc EXCEPT ![r] = "save"]
    /\ UNCHANGED <<hist_file, user_query, documents>>
    /\ UNCHANGED <<flattenVars, indexVars, searchVars, mainVars>>

\* line 197, save_conversation_history up to the open (line 57)
SaveOpen(r) ==
    /\ pc[r] = "save"
    /\ Called(r, "save_conversation_history")
    /\ hist_file' = OpenForWriting(hist_file)
    /\ pc' = [pc EXCEPT ![r] = "save_write"]
    /\ UNCHANGED <<conversation_history, user_query, documents, printed>>
    /\ UNCHANGED <<flattenVars, indexVars, searchVars, mainVars>>

\* save_conversation_history, the dump and the close (lines 58-59)
SaveWrite(r) ==
    /\ pc[r] = "save_write"
    /\ hist_file' = WriteFromStart(hist_file, json_dump(conversation_history[r]))
    /\ pc' = [pc EXCEPT ![r] = "done"]
    /\ UNCHANGED <<conversation_history, user_query, documents, calls, printed>>
    /\ UNCHANGED <<flattenVars, indexVars, searchVars, mainVars>>

NextQuery ==
    \E r \in Runs :
        \/ InitHelpers(r)
        \/ LoadHistory(r)
        \/ GetUserQuery(r)
        \/ GetEmbedding(r)
        \/ VectorSearchStep(r)
        \/ ChatCompletion(r)
        \/ SaveOpen(r)
        \/ SaveWrite(r)

SpecQuery == InitQuery /\ [][NextQuery]_vars

\* C3: every run that ends has called save_conversation_history, whichever
\* step failed.
C3_SaveAlwaysReached ==
    \A r \in Runs :
        pc[r] = "done" =>
            \E k \in 1..Len(calls[r]) : calls[r][k] = "save_conversation_history"

\* run w has saved its history and the file still holds what it wrote
HoldsWhatWasSavedBy(w) ==
    /\ pc[w] = "done"
    /\ \E k \in 1..Len(calls[w]) : calls[w][k] = "save_conversation_history"
    /\ hist_file = [exists |-> TRUE, text |-> json_dump(conversation_history[w])]

\* C4: when an invocation loads the history while the file holds what an
\* earlier invocation's save wrote, it gets that invocation's messages, in the
\* same order.
C4_HistoryRoundTrip ==
    [][\A r \in Runs, w \in Runs :
          (pc[r] = "load" /\ pc'[r] = "get_query" /\ HoldsWhatWasSavedBy(w))
              => conversation_history'[r] = conversation_history[w]]_vars

C4_Witness ==
    \E r \in Runs, w \in Runs :
        /\ HoldsWhatWasSavedBy(w)
        /\ pc[r] = "get_query"
        /\ conversation_history[r] = conversation_history[w]
        /\ conversation_history[r] =
              <<Message(<<"user">>, <<"say", " ", "\"", "\\">>),
                Message(<<"assistant">>, <<"a", "\n", "n">>)>>

-----------------------------------------------------------------------------
(* main.py: main(), with indexing_helper.py: IndexingHelper.index_document *)

\* what RAG/submission.json may hold
RequiredFields == <<"_id", "user_id", "folder_id", "document_id">>

MainFieldLists ==
    {Absent,
     PyList(<<FieldRecord(PyString("text"), PyString("FirstName"), PyString("Alice"))>>),
     PyList(<<FieldRecord(PyString("address"), PyString("Home"), PyString("123 Main St"))>>)}

MainSubmissions ==
    {Submission(id, user, folder, document, PyString("2025-04-15T10:00:00Z"), fields) :
        id \in {Absent, None, PyString(""), PyInt(0), PyString("result123")},
        user \in {Absent, PyString(""), PyString("userXYZ")},
        folder \in {Absent, PyString(""), PyString("folderABC")},
        document \in {Absent, PyString(""), PyString("doc789")},
        fields \in MainFieldLists}
      \cup {PyList(<<>>)}

\* the statuses the docs/index POST is answered with
UploadStatuses == {200, 201, 207, 400, 403, 404, 503}

\* what get_embedding returns for the summary
SummaryEmbedding == PyList(<<PyInt(1), PyInt(0)>>)

\* faulty variant: one required field is enough
required_fields_present_any(doc_id, user_id, folder_id, document_id) ==
    bool(doc_id) \/ bool(user_id) \/ bool(folder_id) \/ bool(document_id)

\* main.py line 86: all([doc_id, user_id, folder_id, document_id])
required_fields_present(doc_id, user_id, folder_id, document_id) ==
    bool(doc_id) /\ bool(user_id) /\ bool(folder_id) /\ bool(document_id)

\* response.raise_for_status(): HTTPError for a 4xx or 5xx status
raise_for_status(response) ==
    IF response.status_code \in 400..599 THEN Raise("HTTPError") ELSE Return(None)

\* index_document: the payload it posts, how the call ends on the given
\* response (NoResponse: the POST itself raised), and what it prints
index_document(doc_id, user_id, folder_id, document_id, doc_type, content_text, embedding, metadata, response) ==
    LET search_doc == [action |-> "upload", id |-> doc_id, userId |-> user_id,
                       folderId |-> folder_id, documentId |-> document_id,
                       type |-> doc_type, content |-> content_text,
                       contentVector |-> embedding, metadata |-> metadata]
        payload == [value |-> <<search_doc>>]
    IN  IF response = NoResponse
        THEN [payload |-> payload, outcome |-> Raise("ConnectionError"),
              printed |-> <<"Failed to index document ID">>]
        ELSE IF raise_for_status(response).kind = "raise"
        THEN [payload |-> payload, outcome |-> raise_for_status(response),
              printed |-> <<"Failed to index document ID">>]
        ELSE [payload |-> payload, outcome |-> Return(None),
              printed |-> <<"Successfully indexed document ID">>]

InitMain ==
    /\ IdleFlatten /\ IdleIndex /\ IdleSearch /\ IdleQuery
    /\ submission_file \in MainSubmissions \cup {Absent}
    /\ main_pc = "load"
    /\ submission = Absent
    /\ text_summary = NotRun
    /\ embedding_vector = Absent
    /\ embedding_requests = 0
    /\ posted = <<>>
    /\ main_printed = <<>>

\* lines 46-51, with load_submission: a file that is missing or is no JSON
\* makes load_submission raise
LoadSubmission ==
    /\ main_pc = "load"
    /\ IF submission_file = Absent
       THEN /\ main_printed' = Append(main_printed, "Error loading submission")
            /\ main_pc' = "done"
            /\ UNCHANGED submission
       ELSE /\ submission' = submission_file
            /\ main_pc' = "flatten"
            /\ UNCHANGED main_printed
    /\ UNCHANGED <<submission_file, text_summary, embedding_vector, embedding_requests, posted>>
    /\ UNCHANGED <<flattenVars, indexVars, searchVars, queryVars>>

\* lines 54-64
FlattenSubmission ==
    /\ main_pc = "flatten"
    /\ LET flattened == IF IsDict(submission) THEN flatten_submission(submission)
                        ELSE Raise("AttributeError")
       IN  IF flattened.kind = "raise"
           THEN /\ main_printed' = Append(main_printed, "Error flattening submission")
                /\ main_pc' = "done"
                /\ UNCHANGED text_summary
           ELSE /\ text_summary' = flattened
                /\ main_printed' = Append(main_printed, "Flattened Submission:")
                /\ main_pc' = "embed"
    /\ UNCHANGED <<submission_file, submission, embedding_vector, embedding_requests, posted>>
    /\ UNCHANGED <<flattenVars, indexVars, searchVars, queryVars>>

\* lines 67-75: the EmbeddingHelper constructor raises on an incomplete
\* configuration; get_embedding makes one request, and raises when it fails
GenerateEmbedding ==
    /\ main_pc = "embed"
    /\ \/ /\ main_printed' = Append(main_printed, "Error generating embedding")
          /\ main_pc' = "done"
          /\ UNCHANGED <<embedding_vector, embedding_requests>>
       \/ /\ embedding_requests' = embedding_requests + 1
          /\ main_printed' = Append(main_printed, "Error generating embedding")
          /\ main_pc' = "done"
          /\ UNCHANGED embedding_vector
       \/ /\ embedding_requests' = embedding_requests + 1
          /\ embedding_vector' = SummaryEmbedding
          /\ main_printed' = Append(main_printed, "Generated embedding vector of length")
          /\ main_pc' = "index"
    /\ UNCHANGED <<submission_file, submission, text_summary, posted>>
    /\ UNCHANGED <<flattenVars, indexVars, searchVars, queryVars>>

\* lines 78-108
IndexDocument ==
    /\ main_pc = "index"
    /\ LET doc_id == Get(submission, "_id", None)
           user_id == Get(submission, "user_id", None)
           folder_id == Get(submission, "folder_id", None)
           document_id == Get(submission, "document_id", None)
       IN  \/ \* the IndexingHelper constructor raises
              /\ main_printed' = Append(main_printed, "Error indexing document")
              /\ UNCHANGED posted
           \/ IF ~required_fields_present(doc_id, user_id, folder_id, document_id)
              THEN /\ main_printed' = main_printed \o
                         <<"Missing one or more required fields", "Error indexing document">>
                   /\ UNCHANGED posted
              ELSE \E response \in
                         {[status_code |-> st, text |-> "", json |-> NotJson] :
                             st \in UploadStatuses} \cup {NoResponse} :
                      LET call == index_document(doc_id, user_id, folder_id, document_id,
                                                 PyString("result"), text_summary.value,
                                                 embedding_vector, PyString(""), response)
                      IN  /\ posted' = Append(posted, call.payload)
                          /\ main_printed' = main_printed \o call.printed \o
                                IF call.outcome.kind = "raise"
                                THEN <<"Error indexing document">>
                                ELSE <<"Successfully indexed document ID">>
    /\ main_pc' = "done"
    /\ UNCHANGED <<submission_file, submission, text_summary, embedding_vector,
                   embedding_requests>>
    /\ UNCHANGED <<flattenVars, indexVars, searchVars, queryVars>>

NextMain == LoadSubmission \/ FlattenSubmission \/ GenerateEmbedding \/ IndexDocument

SpecMain == InitMain /\ [][NextMain]_vars

\* does the submission hold a non-empty value under the key?
PresentAndNonEmpty(doc, key) ==
    /\ IsDict(doc)
    /\ Get(doc, key, Absent) \notin {Absent, None, PyString("")}

AllRequiredFields(doc) ==
    \A k \in 1..Len(RequiredFields) : PresentAndNonEmpty(doc, RequiredFields[k])

MainShowed(line) == \E k \in 1..Len(main_printed) : main_printed[k] = line

\* C16: a run of main posts at most one upload, and only after the submission
\* was loaded, flattened and embedded and with '_id', 'user_id', 'folder_id'
\* and 'document_id' all present and non-empty; a run that got as far as the
\* presence check with one of the four missing or empty has ended with an
\* error, has posted nothing, and has made its embedding request.
C16_UploadOnlyWithRequiredFields ==
    /\ Len(posted) <= 1
    /\ posted # <<>> =>
          /\ submission = submission_file /\ submission # Absent
          /\ text_summary.kind = "return"
          /\ embedding_vector # Absent /\ embedding_requests = 1
          /\ AllRequiredFields(submission)
    /\ (main_pc = "done" /\ embedding_vector # Absent /\ ~AllRequiredFields(submission)) =>
          /\ posted = <<>>
          /\ embedding_requests = 1
          /\ main_printed[Len(main_printed)] = "Error indexing document"

C16_Witness ==
    /\ main_pc = "done"
    /\ IsDict(submission)
    /\ Get(submission, "_id", Absent) = PyString("result123")
    /\ Get(submission, "folder_id", Absent) = PyString("")
    /\ embedding_requests = 1
    /\ posted = <<>>
    /\ MainShowed("Missing one or more required fields")

-----------------------------------------------------------------------------
(* The two entry points: main.py and user_query.py *)

\* one invocation, of either entry point
InitOneQuery ==
    /\ IdleFlatten /\ IdleIndex /\ IdleSearch /\ IdleMain
    /\ hist_file = [exists |-> FALSE, text |-> <<>>]
    /\ pc = [r \in Runs |-> IF r = 1 THEN "init" ELSE "idle"]
    /\ conversation_history = [r \in Runs |-> <<>>]
    /\ user_query = [r \in Runs |-> <<>>]
    /\ documents = [r \in Runs |-> <<>>]
    /\ calls = [r \in Runs |-> <<>>]
    /\ printed = [r \in Runs |-> <<>>]

InitEntryPoints == InitMain \/ InitOneQuery

NextEntryPoints == NextMain \/ NextQuery

SpecEntryPoints == InitEntryPoints /\ [][NextEntryPoints]_vars

\* what a run of the query orchestrator prints when a step fails
QueryFailed == "Error loading user query"
EmbeddingFailed == "Error generating embedding. Please try again later."
SearchFailed == "Error performing search"
ChatFailed == "Answer: I'm sorry, I couldn't generate a response at this time."

Showed(r, line) == \E k \in 1..Len(printed[r]) : printed[r][k] = line
LastCall(r) == calls[r][Len(calls[r])]
HasCalled(r, f) == \E k \in 1..Len(calls[r]) : calls[r][k] = f

\* a step of main.py failed and nothing after it was done
MainFailuresEndTheRun ==
    /\ MainShowed("Error loading submission") =>
          /\ main_pc = "done" /\ submission = Absent /\ text_summary = NotRun
          /\ embedding_requests = 0 /\ posted = <<>>
    /\ MainShowed("Error flattening submission") =>
          /\ main_pc = "done" /\ text_summary = NotRun
          /\ embedding_requests = 0 /\ posted = <<>>
    /\ MainShowed("Error generating embedding") =>
          /\ main_pc = "done" /\ embedding_vector = Absent /\ posted = <<>>
    /\ MainShowed("Error indexing document") => main_pc = "done"

\* reading the query, the embedding or the search failed and nothing after it
\* was called
EarlyFailuresEndTheRun(r) ==
    /\ Showed(r, QueryFailed) => pc[r] = "done" /\ LastCall(r) = "get_user_query"
    /\ Showed(r, EmbeddingFailed) => pc[r] = "done" /\ LastCall(r) = "get_embedding"
    /\ Showed(r, SearchFailed) => pc[r] = "done" /\ LastCall(r) = "vector_search"

\* C12 as stated: in both entry points a step that failed is the last step of
\* its run; in the query orchestrator, the chat completion included.
C12_FailureEndsTheRun ==
    /\ MainFailuresEndTheRun
    /\ \A r \in Runs :
          /\ EarlyFailuresEndTheRun(r)
          /\ Showed(r, ChatFailed) => LastCall(r) = "chat_completion"

\* C12, amended: in main.py every failed step is the last step of its run; in
\* the query orchestrator that holds for reading the query, the embedding and
\* the search, while a failed chat completion is followed by the save step: a
\* run that ended after it has called save_conversation_history.
C12_FailureEndsTheRunExceptChat ==
    /\ MainFailuresEndTheRun
    /\ \A r \in Runs :
          /\ EarlyFailuresEndTheRun(r)
          /\ Showed(r, ChatFailed) =>
                /\ pc[r] \in {"save", "save_write", "done"}
                /\ pc[r] = "save" => LastCall(r) = "chat_completion"
                /\ pc[r] # "save" => LastCall(r) = "save_conversation_history"

C12_Witness ==
    \E r \in Runs :
        /\ pc[r] = "done"
        /\ Showed(r, ChatFailed)
        /\ calls[r] = <<"load_conversation_history", "get_user_query", "get_embedding",
                        "vector_search", "chat_completion", "save_conversation_history">>
        /\ hist_file = [exists |-> TRUE, text |-> json_dump(conversation_history[r])]

-----------------------------------------------------------------------------
(* Properties of the conversation history *)

\* run x has gone through save_conversation_history
HasSaved(x) == pc[x] = "done" /\ HasCalled(x, "save_conversation_history")

\* the file holds a list of messages, and it is the list of one run that saved
FileHoldsOneRunsList ==
    LET held == json_load(hist_file.text)
    IN  (hist_file.exists /\ held.kind = "return" /\ held.value # <<>>) =>
            \E x \in Runs : HasSaved(x) /\ held.value = conversation_history[x]

\* C13: a save takes no account of what the file holds: the open empties it,
\* whatever another invocation saved since this one loaded, and the write on
\* the emptied file leaves exactly the saver's own list; so the file never
\* holds more than the list of one invocation. (The lost update itself is the
\* state of C13_Witness.)
C13_SaveOverwritesWithOwnList ==
    /\ []FileHoldsOneRunsList
    /\ [][\A r \in Runs :
             /\ (pc[r] = "save" /\ pc'[r] = "save_write") =>
                   hist_file' = [exists |-> TRUE, text |-> <<>>]
             /\ (pc[r] = "save_write" /\ pc'[r] = "done" /\ hist_file.text = <<>>) =>
                   /\ hist_file' = [exists |-> TRUE,
                                    text |-> json_dump(conversation_history[r])]
                   /\ load_conversation_history(hist_file') = conversation_history[r]]_vars

\* both runs loaded the empty history before either saved, both asked, were
\* answered and saved; the file holds the turn of w only
C13_Witness ==
    \E r \in Runs, w \in Runs :
        /\ r # w
        /\ HasSaved(r) /\ HasSaved(w)
        /\ Showed(r, "Answer") /\ Showed(w, "Answer")
        /\ Len(conversation_history[r]) = 2 /\ Len(conversation_history[w]) = 2
        /\ user_query[r] # user_query[w]
        /\ load_conversation_history(hist_file) = conversation_history[w]
        /\ \A k \in 1..Len(load_conversation_history(hist_file)) :
              load_conversation_history(hist_file)[k]
                  # Message(<<"user">>, user_query[r])

\* a run in which the chat completion failed goes through the save; a run in
\* which reading the query, the embedding or the search failed has ended
\* without it
SaveReachedAfterChatFailureOnly ==
    \A r \in Runs :
        /\ Showed(r, ChatFailed) =>
              /\ pc[r] \in {"save", "save_write", "done"}
              /\ pc[r] = "done" => HasCalled(r, "save_conversation_history") /\ hist_file.exists
        /\ (Showed(r, QueryFailed) \/ Showed(r, EmbeddingFailed) \/ Showed(r, SearchFailed)) =>
              /\ pc[r] = "done"
              /\ ~HasCalled(r, "save_conversation_history")

\* C14: a run whose chat completion failed still calls
\* save_conversation_history, which rewrites the history file with the run's
\* list; a run whose query reading, embedding or search failed ends without
\* calling it, and no step of a run other than the two steps of the save
\* changes the file.
C14_FailureAsymmetry ==
    /\ []SaveReachedAfterChatFailureOnly
    /\ [][\A r \in Runs :
             /\ (pc'[r] # pc[r] /\ pc[r] \notin {"save", "save_write"}) =>
                   hist_file' = hist_file
             /\ (Showed(r, ChatFailed) /\ pc[r] = "save_write" /\ pc'[r] = "done"
                   /\ hist_file.text = <<>>) =>
                   hist_file'.text = json_dump(conversation_history[r])]_vars

C14_Witness ==
    \E r \in Runs, w \in Runs :
        /\ Showed(r, SearchFailed)
        /\ pc[r] = "done"
        /\ calls[r] = <<"load_conversation_history", "get_user_query", "get_embedding",
                        "vector_search">>
        /\ Showed(w, ChatFailed)
        /\ HasSaved(w)
        /\ conversation_history[r] = <<>>
        /\ hist_file = [exists |-> TRUE,
                        text |-> json_dump(<<Message(<<"user">>, user_query[w])>>)]

NoDocuments == "No relevant documents found."

\* the chat completion is called only with documents found by the search the
\* run made before it; a run that found none has ended after printing so,
\* without the chat completion and without the save
ChatOnlyWithDocuments ==
    \A r \in Runs :
        /\ HasCalled(r, "chat_completion") =>
              /\ documents[r] # <<>>
              /\ \E i \in 1..Len(calls[r]), j \in 1..Len(calls[r]) :
                    /\ i < j
                    /\ calls[r][i] = "vector_search"
                    /\ calls[r][j] = "chat_completion"
        /\ Showed(r, NoDocuments) =>
              /\ pc[r] = "done"
              /\ printed[r][Len(printed[r])] = NoDocuments
              /\ LastCall(r) = "vector_search"
              /\ ~HasCalled(r, "chat_completion")
              /\ ~HasCalled(r, "save_conversation_history")

\* C15: the chat completion is called only after a vector search of the same
\* run returned at least one document; a run whose search returned an empty or
\* missing 'value' list prints 'No relevant documents found.' and ends without
\* calling the chat completion or the save, and its steps after the load
\* neither change its history list nor the history file.
C15_NoDocumentsNoChat ==
    /\ []ChatOnlyWithDocuments
    /\ [][\A r \in Runs :
             (pc[r] \in {"get_query", "embed", "search"} /\ pc'[r] # pc[r]) =>
                 /\ conversation_history'[r] = conversation_history[r]
                 /\ hist_file' = hist_file]_vars

C15_Witness ==
    \E r \in Runs, w \in Runs :
        /\ HasSaved(w)
        /\ pc[r] = "done"
        /\ printed[r] = <<"query", NoDocuments>>
        /\ calls[r] = <<"load_conversation_history", "get_user_query", "get_embedding",
                        "vector_search">>
        /\ conversation_history[r] = conversation_history[w]
        /\ Len(conversation_history[r]) = 2
        /\ hist_file = [exists |-> TRUE, text |-> json_dump(conversation_history[r])]

\* the list json.load gives for the file, when the file exists and parses
LoadedList(file) ==
    LET held == json_load(file.text)
    IN  IF file.exists /\ held.kind = "return" THEN held.value ELSE <<>>

Answers == {Strip(raw) : raw \in AnswerTexts}

\* the turn the chat-completion step of r has just appended to list H
AppendedTurn(r, H) ==
    IF printed'[r][Len(printed'[r])] = ChatFailed
    THEN conversation_history'[r] = H \o <<Message(<<"user">>, user_query[r])>>
    ELSE \E answer \in Answers :
            conversation_history'[r] =
               H \o <<Message(<<"user">>, user_query[r]), Message(<<"assistant">>, answer)>>

\* C17: the load gives a run the list H the file holds (the empty list when the
\* file is missing or does not parse); the chat-completion step makes the
\* run's list H followed by the user message with the query and, when it
\* succeeded, the assistant message with the answer, and by the user message
\* alone when it failed; no other step changes the list; and the save writes
\* that list, over whatever the file held.
C17_HistoryAppendOnly ==
    [][\A r \in Runs :
          /\ (pc[r] = "load" /\ pc'[r] = "get_query") =>
                conversation_history'[r] = LoadedList(hist_file)
          /\ (pc[r] = "chat" /\ pc'[r] = "save") =>
                AppendedTurn(r, conversation_history[r])
          /\ (pc[r] \notin {"load", "chat"}) =>
                conversation_history'[r] = conversation_history[r]
          /\ (pc[r] = "save_write" /\ pc'[r] = "done" /\ hist_file.text = <<>>) =>
                LoadedList(hist_file') = conversation_history[r]]_vars

\* run r loaded the two messages run w had saved, asked, was answered and
\* saved: the file holds the four messages, w's two first
C17_Witness ==
    \E r \in Runs, w \in Runs :
        /\ HasSaved(w) /\ HasSaved(r)
        /\ Len(conversation_history[w]) = 2
        /\ Len(conversation_history[r]) = 4
        /\ SubSeq(conversation_history[r], 1, 2) = conversation_history[w]
        /\ conversation_history[r][3] = Message(<<"user">>, user_query[r])
        /\ conversation_history[r][4].role = <<"assistant">>
        /\ LoadedList(hist_file) = conversation_history[r]

-----------------------------------------------------------------------------
(* Properties of the flattener *)

FieldType(fd) == Get(fd, "fieldType", None)
FieldName(fd) == str(Get(fd, "fieldName", PyString("UnknownField")))
FieldValue(fd) == Get(fd, "value", None)
WithValue(fd, v) ==
    FieldRecord(Get(fd, "fieldType", Absent), Get(fd, "fieldName", Absent), v)
DocFields(doc) == Get(doc, "fieldValues", PyList(<<>>)).elems
WithFieldValue(doc, i, v) ==
    Submission(Get(doc, "_id", Absent), Get(doc, "user_id", Absent),
               Get(doc, "folder_id", Absent), Get(doc, "document_id", Absent),
               Get(doc, "timestamp", Absent),
               PyList([DocFields(doc) EXCEPT ![i] = WithValue(@, v)]))

\* C2: the output for a password field is '{fieldName}: [REDACTED]' and is the
\* same for every value the record could hold instead; likewise the text of a
\* submission does not change when the value of one of its password fields does.
C2_PasswordValueNeverEmitted ==
    /\ (flat # NotRun /\ FieldType(field_data) = PyString("password")) =>
          /\ flat = Return(<<FieldName(field_data) \o ": [REDACTED]">>)
          /\ \A v \in Values \cup {Absent} :
                flatten_field(WithValue(field_data, v)) = flat
    /\ (text # NotRun) =>
          \A i \in 1..Len(DocFields(submission_doc)) :
             FieldType(DocFields(submission_doc)[i]) = PyString("password") =>
                \A v \in Scalars \cup {Absent} :
                   flatten_submission(WithFieldValue(submission_doc, i, v)) = text

C2_Witness ==
    /\ flat # NotRun
    /\ FieldType(field_data) = PyString("password")
    /\ FieldValue(field_data) = PyString("secret")

\* C9: a checkbox field gives '{name}: Checked' for true and '{name}: Unchecked'
\* for false; a missing or null value, 0 and '' give Unchecked and the string
\* 'false' gives Checked (truthiness).
C9_CheckboxFollowsTruthiness ==
    (flat # NotRun /\ FieldType(field_data) = PyString("checkbox")) =>
        LET v == FieldValue(field_data)
            checked == Return(<<FieldName(field_data) \o ": Checked">>)
            unchecked == Return(<<FieldName(field_data) \o ": Unchecked">>)
        IN  /\ v = PyBoolean(TRUE) => flat = checked
            /\ v = PyBoolean(FALSE) => flat = unchecked
            /\ v \in {None, PyInt(0), PyString("")} => flat = unchecked
            /\ v \in {PyInt(7), PyString("false"), PyString("secret")} => flat = checked
            /\ flat \in {checked, unchecked}

C9_Witness ==
    /\ flat = Return(<<"Name: Checked">>)
    /\ FieldType(field_data) = PyString("checkbox")
    /\ FieldValue(field_data) = PyString("false")

\* the '[k=v, ...]' text of each row object drawn
ExpectedRowText(row) ==
    CASE row = PyDict(<<>>) -> "[]"
      [] row = PyDict(<<<<"Item", PyString("Paper Clips")>>>>) -> "[Item=Paper Clips]"
      [] row = PyDict(<<<<"Item", PyString("Markers")>>, <<"Quantity", PyInt(5)>>>>) ->
            "[Item=Markers, Quantity=5]"

\* C8: for a list of row objects the output is the header line '{name}:' and
\* then exactly len(rows) lines, the i-th being '  Row{i}: [k=v, ...]' of the
\* i-th row, numbered from 1; no rows, only the header.
C8_TableHeaderAndNumberedRows ==
    (/\ flat # NotRun
     /\ FieldType(field_data) = PyString("table")
     /\ IsList(FieldValue(field_data))
     /\ \A i \in 1..Len(FieldValue(field_data).elems) :
           FieldValue(field_data).elems[i] \in RowObjects) =>
        LET rows == FieldValue(field_data).elems
        IN  /\ flat.kind = "return"
            /\ Len(flat.value) = 1 + Len(rows)
            /\ flat.value[1] = FieldName(field_data) \o ":"
            /\ \A i \in 1..Len(rows) :
                  flat.value[i + 1] =
                     "  Row" \o ToString(i) \o ": " \o ExpectedRowText(rows[i])

C8_Witness ==
    /\ flat # NotRun
    /\ FieldType(field_data) = PyString("table")
    /\ FieldValue(field_data) =
          PyList(<<PyDict(<<<<"Item", PyString("Paper Clips")>>>>),
                   PyDict(<<<<"Item", PyString("Markers")>>, <<"Quantity", PyInt(5)>>>>)>>)
    /\ flat = Return(<<"Name:", "  Row1: [Item=Paper Clips]",
                       "  Row2: [Item=Markers, Quantity=5]">>)

\* C7: flatten_field never raises: whatever the record, it returns a string.
C7_FlattenFieldNeverRaises ==
    flat # NotRun => flat.kind = "return"

\* the components of an address that are present and not empty, as text, in order
RECURSIVE NonEmptyComponents(_, _)
NonEmptyComponents(address, keys) ==
    IF keys = <<>> THEN <<>>
    ELSE LET c == Get(address, Head(keys), Absent)
         IN  (IF c \in {Absent, None, PyString(""), PyInt(0)} THEN <<>> ELSE <<str(c)>>)
             \o NonEmptyComponents(address, Tail(keys))

ExpectedAddress(fd) ==
    Return(<<FieldName(fd) \o ": " \o
             JoinText(", ", NonEmptyComponents(FieldValue(fd),
                                <<"line1", "line2", "city", "state", "zip">>))>>)

\* C10: for every address object the output is '{name}: ' and then the
\* non-empty components among line1, line2, city, state, zip, in that order,
\* joined by ', '.
C10_AddressJoinsNonEmptyComponents ==
    (/\ flat # NotRun
     /\ FieldType(field_data) = PyString("address")
     /\ IsDict(FieldValue(field_data))) =>
        flat = ExpectedAddress(field_data)

\* the number of rows a table field adds to a submission's text
ExtraLines(fd) ==
    IF FieldType(fd) = PyString("table") /\ IsList(FieldValue(fd))
    THEN Len(FieldValue(fd).elems) ELSE 0

\* the lines the fields before the i-th add
RECURSIVE LinesBefore(_, _)
LinesBefore(fields, i) ==
    IF i <= 1 THEN 0
    ELSE LinesBefore(fields, i - 1) + 1 + ExtraLines(fields[i - 1])

HeaderAsClaimed(doc, out) ==
    /\ Len(out) >= 5
    /\ out[1] = "Submission (Result ID: " \o str(Get(doc, "_id", PyString(""))) \o ")"
    /\ out[2] = "For Document: " \o str(Get(doc, "document_id", PyString("")))
                  \o " in Folder: " \o str(Get(doc, "folder_id", PyString(""))) \o "."
    /\ out[3] = "Owned by user: " \o str(Get(doc, "user_id", PyString(""))) \o "."
    /\ out[4] = "Timestamp: " \o str(Get(doc, "timestamp", PyString(""))) \o "."
    /\ out[5] = "Field Values:"

====
